---- MODULE Spec2Model ----
\* Authentication / session core of the kaceylon backend:
\* controllers/authController.js (src/unnamed/part_001), models/userModel.js,
\* models/refreshTokenModel.js (second half of src/models/userModel.js),
\* controllers/errorController.js (src/unnamed/part_002) and the sweep timer of
\* the server file (src/unnamed/part_003).
\*
\* Every request runs as a sequence of steps; one step is one awaited store
\* call together with the synchronous code that follows it up to the next
\* await.  Requests in different slots interleave freely, the clock advances
\* between steps and every store call may raise.
EXTENDS Integers, FiniteSets, Sequences, TLC

\* ---------------------------------------------------------------- bounds
NumUsers == 2
MaxTime == 3
\* the lifetimes configured in JWT_REFRESH_EXPIRE and JWT_EXPIRE, in seconds
RefreshTTL == 2
AccessTTL == 1

Users == 1..NumUsers
Times == 0..MaxTime
\* two request slots: two requests in flight at a time
ReqIds == {1, 2}
Roles == {"admin", "super-admin"}
Envs == {"development", "production"}

\* ---------------------------------------------------------------- tokens
\* jwt.sign is deterministic: the token string is a function of the payload,
\* and the payload is the claims plus iat (seconds) plus exp = iat + expiresIn.
NoToken == [id |-> 0, iat |-> -1]

sign(userId, t) == [id |-> userId, iat |-> t]

generateAccessToken(userId, t) == sign(userId, t)

AllTokens == [id : Users, iat : Times]

\* jwt.verify with the token still accepted in the second of its exp
accessExpired_late(tok, t) == t > tok.iat + AccessTTL

\* jwt.verify: TokenExpiredError once the clock has reached exp
accessExpired(tok, t) == t >= tok.iat + AccessTTL

\* a bearer string that no sign with JWT_SECRET produced (garbage, a tampered
\* token, a token signed with another secret)
ForgedToken == [id |-> 1, iat |-> -2]

\* jwt.verify with the signature check at the exp of the payload
jwtVerify_expiryFirst(tok, t) ==
    IF accessExpired(tok, t) THEN "TokenExpiredError"
    ELSE IF tok \notin AllTokens THEN "JsonWebTokenError"
    ELSE "ok"

\* jwt.verify(token, JWT_SECRET): the signature is checked first, then exp
jwtVerify(tok, t) ==
    IF tok \notin AllTokens THEN "JsonWebTokenError"
    ELSE IF accessExpired(tok, t) THEN "TokenExpiredError"
    ELSE "ok"

\* ---------------------------------------------------------------- errors
\* the Error the catch-all route builds: new Error(..) with statusCode 404
\* set on it, and no isOperational
RouteNotFound ==
    [name |-> "Error", code |-> 0, statusCode |-> 404,
     message |-> "Route not found", isOperational |-> FALSE]

AppError(message, statusCode) ==
    [name |-> "AppError", code |-> 0, statusCode |-> statusCode,
     message |-> message, isOperational |-> TRUE]

\* what a store call raises when the store is unavailable
StoreError ==
    [name |-> "MongoNetworkError", code |-> 0, statusCode |-> 0,
     message |-> "store unavailable", isOperational |-> FALSE]

\* what a store insert raises on a unique-index violation
DuplicateKeyError ==
    [name |-> "MongoServerError", code |-> 11000, statusCode |-> 0,
     message |-> "E11000 duplicate key error", isOperational |-> FALSE]

NoError == [name |-> "none", code |-> 0, statusCode |-> 0,
            message |-> "", isOperational |-> FALSE]

MsgNotAuthorized == "Not authorized to access this route"
MsgTokenNotValid == "Token is not valid"
MsgTokenExpired == "Token expired"
MsgDeactivated == "Account is deactivated"
MsgRefreshRequired == "Refresh token is required"
MsgInvalidOrExpired == "Invalid or expired refresh token"
MsgInvalidRefresh == "Invalid refresh token"
MsgReuse == "Refresh token reuse detected. All sessions revoked. Please log in again."
MsgAdminExists == "Admin with this email already exists"
MsgInvalidCredentials == "Invalid credentials"
MsgRegistered == "Admin registered successfully"
MsgLoginOk == "Login successful"
MsgRefreshed == "Token refreshed successfully"
MsgLoggedOut == "Logged out successfully"
MsgDbConnection == "Database connection error. Please try again later."
MsgDuplicateField == "Duplicate field value. Please use another value."
MsgVeryWrong == "Something went very wrong"

\* ---------------------------------------------------------------- documents
\* an Admin document as the set of paths it carries.  Admin.create resolves to
\* the document it saved, the hashed password among its paths (select: false
\* of the schema applies to queries only)
createdAdmin == {"_id", "name", "email", "password", "role", "isActive"}

\* Admin.findOne({ email }).select('+password')
foundWithPassword == createdAdmin \cup {"lastLogin"}

\* admin.toObject() followed by delete adminWithoutPassword.password
withoutPassword(doc) == doc \ {"password"}

\* ---------------------------------------------------------------- responses
\* cookie: the value of a Set-Cookie refreshToken header, NoToken when none;
\* cleared: res.clearCookie('refreshToken') was called;
\* admin: the paths of data.admin in the body, empty when the body has none;
\* maxAge: the Max-Age of the refreshToken cookie in seconds, 0 when none is set
NoRes == [status |-> 0, message |-> "", cookie |-> NoToken, maxAge |-> 0,
          cleared |-> FALSE, accessToken |-> NoToken, admin |-> {}]

ErrRes(status, message) ==
    [status |-> status, message |-> message, cookie |-> NoToken, maxAge |-> 0,
     cleared |-> FALSE, accessToken |-> NoToken, admin |-> {}]

\* cookieOptions.maxAge of setRefreshTokenCookie (7 days), in seconds
cookieMaxAge == 7 * 24 * 60 * 60

sendErrorDev(err) == ErrRes(err.statusCode, err.message)

sendErrorProd(err) ==
    IF err.isOperational THEN ErrRes(err.statusCode, err.message)
    ELSE ErrRes(500, MsgVeryWrong)

handleMongoNetworkError == AppError(MsgDbConnection, 500)

handleDuplicateFieldsDB == AppError(MsgDuplicateField, 400)

globalErrorHandler(err, environment) ==
    LET e == [err EXCEPT !.statusCode = IF err.statusCode = 0 THEN 500 ELSE err.statusCode]
        p1 == IF e.name = "MongoNetworkError" THEN handleMongoNetworkError ELSE e
        p2 == IF e.code = 11000 THEN handleDuplicateFieldsDB ELSE p1
    IN  IF environment = "development" THEN sendErrorDev(e) ELSE sendErrorProd(p2)

\* ---------------------------------------------------------------- ledger
\* RefreshToken collection: rows [token, user, expiresAt, isRevoked],
\* unique index on token
hasRow(L, token) == \E row \in L : row.token = token

rowOf(L, token) == CHOOSE row \in L : row.token = token

isExpired(row, t) == t >= row.expiresAt

\* result of an insert: the new collection, or the error it raised
createToken(L, userId, token, expiresIn, t, storeOk) ==
    IF ~storeOk THEN [ledger |-> L, err |-> StoreError]
    ELSE IF hasRow(L, token) THEN [ledger |-> L, err |-> DuplicateKeyError]
    ELSE [ledger |-> L \cup {[token |-> token, user |-> userId,
                              expiresAt |-> t + expiresIn, isRevoked |-> FALSE]},
          err |-> NoError]

\* findValidToken without the expiresAt filter
findValidToken_noExpiry(L, token, t) ==
    {row \in L : row.token = token /\ ~row.isRevoked}

findValidToken(L, token, t) ==
    {row \in L : row.token = token /\ ~row.isRevoked /\ row.expiresAt > t}

\* revokeAllForUser as an update that inverts the flag of the account's rows
revokeAllForUser_flip(L, userId) ==
    {IF row.user = userId
        THEN [row EXCEPT !.isRevoked = ~row.isRevoked] ELSE row : row \in L}

revokeAllForUser(L, userId) ==
    {IF row.user = userId /\ ~row.isRevoked
        THEN [row EXCEPT !.isRevoked = TRUE] ELSE row : row \in L}

\* revokeToken with the filter on the owner instead of the token value
revokeToken_allOfOwner(L, token) ==
    {IF \E own \in L : own.token = token /\ own.user = row.user
        THEN [row EXCEPT !.isRevoked = TRUE] ELSE row : row \in L}

\* revokeToken as a findOneAndDelete
revokeToken_delete(L, token) == {row \in L : row.token /= token}

revokeToken(L, token) ==
    {IF row.token = token THEN [row EXCEPT !.isRevoked = TRUE] ELSE row : row \in L}

\* cleanupExpired with $lte in place of $lt
cleanupExpired_inclusive(L, t) == {row \in L : ~(row.expiresAt <= t)}

cleanupExpired(L, t) == {row \in L : ~(row.expiresAt < t)}

\* RefreshToken.findOneAndUpdate({token, isRevoked: false}, {isRevoked: true})
\* of refreshToken: the document it matched (consumed), and the collection
consumeMatches(L, token) == {row \in L : row.token = token /\ ~row.isRevoked}

consumeUpdate(L, token) ==
    {IF row.token = token /\ ~row.isRevoked
        THEN [row EXCEPT !.isRevoked = TRUE] ELSE row : row \in L}

\* process.env.JWT_REFRESH_EXPIRE: a number followed by a unit, as in '7d',
\* '12h', '30m', '45s'
JWT_REFRESH_EXPIRE == [n |-> RefreshTTL, unit |-> "s"]

\* the parse of expiresIn in generateRefreshToken
expiresInSeconds(expiresIn) ==
    IF expiresIn.unit = "d" THEN expiresIn.n * 24 * 60 * 60
    ELSE IF expiresIn.unit = "h" THEN expiresIn.n * 60 * 60
    ELSE IF expiresIn.unit = "m" THEN expiresIn.n * 60
    ELSE expiresIn.n

\* a token is "valid" (ACTIVE) iff revoked = false and now < expiry
Active(L, userId, t) == {row \in L : row.user = userId /\ ~row.isRevoked /\ row.expiresAt > t}

\* generateRefreshToken with the insert's error caught and dropped
generateRefreshToken_unrecorded(L, userId, t, storeOk) ==
    LET refreshToken == sign(userId, t)
        created == createToken(L, userId, refreshToken,
                               expiresInSeconds(JWT_REFRESH_EXPIRE), t, storeOk)
    IN  [ledger |-> created.ledger, err |-> NoError, token |-> refreshToken]

\* admin.generateRefreshToken(): sign, then RefreshToken.createToken; the
\* token is returned only when the insert did not raise
generateRefreshToken(L, userId, t, storeOk) ==
    LET refreshToken == sign(userId, t)
        created == createToken(L, userId, refreshToken,
                               expiresInSeconds(JWT_REFRESH_EXPIRE), t, storeOk)
    IN  [ledger |-> created.ledger, err |-> created.err,
         token |-> IF created.err = NoError THEN refreshToken ELSE NoToken]

\* ---------------------------------------------------------------- state
VARIABLES
    now,          \* Date.now() in seconds
    env,          \* process.env.NODE_ENV
    admins,       \* Admin collection, keyed by email (unique index)
    ledger,       \* RefreshToken collection
    reqs,         \* request slots: the handler's locals and its response
    accessIssued  \* access tokens handed to clients so far

vars == <<now, env, admins, ledger, reqs, accessIssued>>

NoAdmin == [exists |-> FALSE, isActive |-> FALSE, role |-> "admin", lastLogin |-> -1]

IdleReq ==
    [kind |-> "idle", pc |-> "idle", email |-> 0, password |-> FALSE,
     role |-> "admin", cookie |-> NoToken, admin |-> 0, tokenDoc |-> NoToken,
     accessToken |-> NoToken, with |-> {}, fault |-> FALSE, res |-> NoRes]

\* the store as the process finds it when it starts serving: empty, or holding
\* the account and the root refresh token of one earlier registration
InitEmpty ==
    /\ admins = [u \in Users |-> NoAdmin]
    /\ ledger = {}
    /\ accessIssued = {}

InitRegistered ==
    /\ admins = [u \in Users |->
                    IF u = 1 THEN [exists |-> TRUE, isActive |-> TRUE,
                                   role |-> "admin", lastLogin |-> -1]
                    ELSE NoAdmin]
    /\ ledger = generateRefreshToken({}, 1, 0, TRUE).ledger
    /\ accessIssued = {generateAccessToken(1, 0)}

Init ==
    /\ now = 0
    /\ env \in Envs
    /\ reqs = [r \in ReqIds |-> IdleReq]
    /\ (InitEmpty \/ InitRegistered)

\* ---------------------------------------------------------------- requests
\* a slot serves one request; slots are taken in order
Free(r) == reqs[r].pc = "idle" /\ \A q \in ReqIds : q < r => reqs[q].pc /= "idle"

\* a new request arrives in slot r: the requests in flight at that moment run
\* concurrently with it
Arrive(rs, r, kind) ==
    [q \in ReqIds |->
        IF q = r
        THEN [IdleReq EXCEPT !.kind = kind, !.with = {p \in ReqIds \ {r} : ~(rs[p].pc \in {"idle", "done"})}]
        ELSE rs[q]]

Concurrent(r1, r2) == r1 /= r2 /\ (r2 \in reqs[r1].with \/ r1 \in reqs[r2].with)

\* a store call of request r raised
Fault(rs, r) == [rs EXCEPT ![r].fault = TRUE]

\* res.status(..).json(..): the request is over
Respond(rs, r, res) == [rs EXCEPT ![r].pc = "done", ![r].res = res]

\* next(err), or an error thrown out of an async handler: the centralized
\* error handler writes the response
nextErr(rs, r, err) == Respond(rs, r, globalErrorHandler(err, env))

\* setRefreshTokenCookie + res.json of register, login and refreshToken
Success(status, message, refreshToken, accessToken, admin) ==
    [status |-> status, message |-> message, cookie |-> refreshToken,
     maxAge |-> cookieMaxAge,
     cleared |-> FALSE, accessToken |-> accessToken, admin |-> admin]

\* ---------------------------------------------------------------- register
RegisterFindOne(r, email, role, storeOk) ==
    /\ Free(r)
    /\ LET rs == [Arrive(reqs, r, "register") EXCEPT ![r].email = email] IN
       reqs' = IF ~storeOk THEN nextErr(Fault(rs, r), r, StoreError)
               ELSE IF admins[email].exists
                    THEN nextErr(rs, r, AppError(MsgAdminExists, 400))
               ELSE [rs EXCEPT ![r].pc = "create", ![r].role = role]
    /\ UNCHANGED <<now, env, admins, ledger, accessIssued>>

RegisterCreate(r, storeOk) ==
    /\ reqs[r].kind = "register" /\ reqs[r].pc = "create"
    /\ LET email == reqs[r].email IN
       IF ~storeOk
       THEN /\ reqs' = nextErr(Fault(reqs, r), r, StoreError)
            /\ UNCHANGED admins
       ELSE IF admins[email].exists
       THEN /\ reqs' = nextErr(reqs, r, DuplicateKeyError)
            /\ UNCHANGED admins
       ELSE /\ admins' = [admins EXCEPT ![email] =
                            [exists |-> TRUE, isActive |-> TRUE,
                             role |-> reqs[r].role, lastLogin |-> -1]]
            /\ reqs' = [reqs EXCEPT ![r].pc = "mint", ![r].admin = email,
                                    ![r].accessToken = generateAccessToken(email, now)]
    /\ UNCHANGED <<now, env, ledger, accessIssued>>

\* generateRefreshToken, setRefreshTokenCookie and res.json of register and login
MintAndRespond(r, status, message, admin, storeOk) ==
    LET minted == generateRefreshToken(ledger, reqs[r].admin, now, storeOk) IN
    IF minted.err /= NoError
    THEN /\ reqs' = nextErr(IF storeOk THEN reqs ELSE Fault(reqs, r), r, minted.err)
         /\ UNCHANGED <<ledger, accessIssued>>
    ELSE /\ ledger' = minted.ledger
         /\ reqs' = Respond(reqs, r, Success(status, message, minted.token,
                                            reqs[r].accessToken, admin))
         /\ accessIssued' = accessIssued \cup {reqs[r].accessToken}

RegisterMint(r, storeOk) ==
    /\ reqs[r].kind = "register" /\ reqs[r].pc = "mint"
    /\ MintAndRespond(r, 201, MsgRegistered, createdAdmin, storeOk)
    /\ UNCHANGED <<now, env, admins>>

\* ---------------------------------------------------------------- login
\* login with the active flag tested before the password
credentialsError_activeFirst(admin, passwordCorrect) ==
    IF ~admin.exists THEN AppError(MsgInvalidCredentials, 401)
    ELSE IF ~admin.isActive THEN AppError(MsgDeactivated, 401)
    ELSE IF ~passwordCorrect THEN AppError(MsgInvalidCredentials, 401)
    ELSE NoError

\* login without the test of the active flag
credentialsError_noActiveCheck(admin, passwordCorrect) ==
    IF ~admin.exists THEN AppError(MsgInvalidCredentials, 401)
    ELSE IF ~passwordCorrect THEN AppError(MsgInvalidCredentials, 401)
    ELSE NoError

\* the checks of login on the document of findOne: the error it passes to
\* next, NoError when the login goes on
credentialsError(admin, passwordCorrect) ==
    IF ~admin.exists THEN AppError(MsgInvalidCredentials, 401)
    ELSE IF ~passwordCorrect THEN AppError(MsgInvalidCredentials, 401)
    ELSE IF ~admin.isActive THEN AppError(MsgDeactivated, 401)
    ELSE NoError

\* password: whether the password of the body matches the hash of the account
\* (only the hash of an account that exists can match)
LoginFindOne(r, email, passwordCorrect, storeOk) ==
    /\ Free(r)
    /\ admins[email].exists \/ ~passwordCorrect
    /\ LET rs == [Arrive(reqs, r, "login") EXCEPT ![r].email = email,
                                                  ![r].password = passwordCorrect] IN
       reqs' = IF ~storeOk THEN nextErr(Fault(rs, r), r, StoreError)
               ELSE IF credentialsError(admins[email], passwordCorrect) /= NoError
                    THEN nextErr(rs, r, credentialsError(admins[email], passwordCorrect))
               ELSE [rs EXCEPT ![r].pc = "save", ![r].admin = email]
    /\ UNCHANGED <<now, env, admins, ledger, accessIssued>>

LoginSave(r, storeOk) ==
    /\ reqs[r].kind = "login" /\ reqs[r].pc = "save"
    /\ IF ~storeOk
       THEN /\ reqs' = nextErr(Fault(reqs, r), r, StoreError)
            /\ UNCHANGED admins
       ELSE /\ admins' = [admins EXCEPT ![reqs[r].admin].lastLogin = now]
            /\ reqs' = [reqs EXCEPT ![r].pc = "mint",
                                    ![r].accessToken = generateAccessToken(reqs[r].admin, now)]
    /\ UNCHANGED <<now, env, ledger, accessIssued>>

LoginMint(r, storeOk) ==
    /\ reqs[r].kind = "login" /\ reqs[r].pc = "mint"
    /\ MintAndRespond(r, 200, MsgLoginOk, withoutPassword(foundWithPassword), storeOk)
    /\ UNCHANGED <<now, env, admins>>

\* ---------------------------------------------------------------- refresh
\* the refresh cookies a client can present: one it was handed, a value of
\* the ledger, an unknown value, or no cookie
\* a value no mint ever produces
UnknownToken == sign(0, 0)

Handed == {reqs[q].res.cookie : q \in ReqIds} \ {NoToken}

Presentable == {row.token : row \in ledger} \cup Handed \cup {UnknownToken}

\* verifyRefreshToken with a missing cookie looked up like any other value
verifyRefreshToken_missingAsInvalid(r, refreshToken, storeOk) ==
    /\ Free(r)
    /\ LET rs == [Arrive(reqs, r, "refresh") EXCEPT ![r].cookie = refreshToken]
           found == findValidToken(ledger, refreshToken, now)
           tokenDoc == CHOOSE row \in found : TRUE
       IN
       reqs' = IF ~storeOk
                    THEN nextErr(Fault(rs, r), r, AppError(MsgInvalidRefresh, 401))
               ELSE IF found = {}
                    THEN nextErr(rs, r, AppError(MsgInvalidOrExpired, 401))
               ELSE IF ~admins[tokenDoc.user].exists
                    THEN nextErr(rs, r, AppError(MsgInvalidRefresh, 401))
               ELSE [rs EXCEPT ![r].pc = "consume", ![r].admin = tokenDoc.user,
                               ![r].tokenDoc = tokenDoc.token]
    /\ UNCHANGED <<now, env, admins, ledger, accessIssued>>

verifyRefreshToken(r, refreshToken, storeOk) ==
    /\ Free(r)
    /\ LET rs == [Arrive(reqs, r, "refresh") EXCEPT ![r].cookie = refreshToken]
           found == findValidToken(ledger, refreshToken, now)
           tokenDoc == CHOOSE row \in found : TRUE
       IN
       reqs' = IF refreshToken = NoToken
                    THEN nextErr(rs, r, AppError(MsgRefreshRequired, 400))
               ELSE IF ~storeOk
                    THEN nextErr(Fault(rs, r), r, AppError(MsgInvalidRefresh, 401))
               ELSE IF found = {}
                    THEN nextErr(rs, r, AppError(MsgInvalidOrExpired, 401))
               ELSE IF ~admins[tokenDoc.user].exists
                    THEN nextErr(rs, r, AppError(MsgInvalidRefresh, 401))
               ELSE [rs EXCEPT ![r].pc = "consume", ![r].admin = tokenDoc.user,
                               ![r].tokenDoc = tokenDoc.token]
    /\ UNCHANGED <<now, env, admins, ledger, accessIssued>>

\* refreshToken, the atomic consume (the tokenDoc of verifyRefreshToken is
\* never revoked, so the first branch of the handler is not taken)
refreshTokenConsume(r, storeOk) ==
    /\ reqs[r].kind = "refresh" /\ reqs[r].pc = "consume"
    /\ LET token == reqs[r].tokenDoc IN
       IF ~storeOk
       THEN \* the error is caught and logged, rotation goes on
            /\ reqs' = [Fault(reqs, r) EXCEPT ![r].pc = "mint"]
            /\ UNCHANGED ledger
       ELSE IF consumeMatches(ledger, token) = {}
       THEN /\ reqs' = [reqs EXCEPT ![r].pc = "revokeAll"]
            /\ UNCHANGED ledger
       ELSE /\ ledger' = consumeUpdate(ledger, token)
            /\ reqs' = [reqs EXCEPT ![r].pc = "mint"]
    /\ UNCHANGED <<now, env, admins, accessIssued>>

\* the revoke-all of refreshToken without its try/catch
refreshTokenRevokeAll_surfaced(r, storeOk) ==
    /\ reqs[r].kind = "refresh" /\ reqs[r].pc = "revokeAll"
    /\ ledger' = IF storeOk THEN revokeAllForUser(ledger, reqs[r].admin) ELSE ledger
    /\ reqs' = IF storeOk THEN nextErr(reqs, r, AppError(MsgReuse, 401))
               ELSE nextErr(Fault(reqs, r), r, StoreError)
    /\ UNCHANGED <<now, env, admins, accessIssued>>

refreshTokenRevokeAll(r, storeOk) ==
    /\ reqs[r].kind = "refresh" /\ reqs[r].pc = "revokeAll"
    /\ ledger' = IF storeOk THEN revokeAllForUser(ledger, reqs[r].admin) ELSE ledger
    /\ reqs' = nextErr(IF storeOk THEN reqs ELSE Fault(reqs, r), r, AppError(MsgReuse, 401))
    /\ UNCHANGED <<now, env, admins, accessIssued>>

refreshTokenMint(r, storeOk) ==
    /\ reqs[r].kind = "refresh" /\ reqs[r].pc = "mint"
    /\ LET minted == generateRefreshToken(ledger, reqs[r].admin, now, storeOk)
           accessToken == generateAccessToken(reqs[r].admin, now)
       IN
       IF minted.err /= NoError
       THEN /\ reqs' = nextErr(IF storeOk THEN reqs ELSE Fault(reqs, r), r, minted.err)
            /\ UNCHANGED <<ledger, accessIssued>>
       ELSE /\ ledger' = minted.ledger
            /\ reqs' = Respond(reqs, r, Success(200, MsgRefreshed, minted.token, accessToken, {}))
            /\ accessIssued' = accessIssued \cup {accessToken}
    /\ UNCHANGED <<now, env, admins>>

\* ---------------------------------------------------------------- logout
\* the access tokens a client can present: one it was given, or none
Bearers == accessIssued \cup {NoToken}

\* protect: the error it passes to next, NoError when the request proceeds
\* protect that also asks for a live refresh token of the account
protect_sessionBound(token, t, storeOk) ==
    IF token = NoToken THEN AppError(MsgNotAuthorized, 401)
    ELSE IF jwtVerify(token, t) = "TokenExpiredError" THEN AppError(MsgTokenExpired, 401)
    ELSE IF jwtVerify(token, t) /= "ok" THEN AppError(MsgTokenNotValid, 401)
    ELSE IF ~storeOk THEN AppError(MsgTokenNotValid, 401)
    ELSE IF ~admins[token.id].exists THEN AppError(MsgTokenNotValid, 401)
    ELSE IF ~admins[token.id].isActive THEN AppError(MsgDeactivated, 401)
    ELSE IF Active(ledger, token.id, t) = {} THEN AppError(MsgTokenNotValid, 401)
    ELSE NoError

protect(token, t, storeOk) ==
    IF token = NoToken THEN AppError(MsgNotAuthorized, 401)
    ELSE IF jwtVerify(token, t) = "TokenExpiredError" THEN AppError(MsgTokenExpired, 401)
    ELSE IF jwtVerify(token, t) /= "ok" THEN AppError(MsgTokenNotValid, 401)
    ELSE IF ~storeOk THEN AppError(MsgTokenNotValid, 401)
    ELSE IF ~admins[token.id].exists THEN AppError(MsgTokenNotValid, 401)
    ELSE IF ~admins[token.id].isActive THEN AppError(MsgDeactivated, 401)
    ELSE NoError

LoggedOut ==
    [status |-> 200, message |-> MsgLoggedOut, cookie |-> NoToken, maxAge |-> 0,
     cleared |-> TRUE, accessToken |-> NoToken, admin |-> {}]

\* protect, then logout up to its await (without a cookie logout answers at once)
LogoutProtect(r, accessToken, refreshToken, storeOk) ==
    /\ Free(r)
    /\ LET rs == [Arrive(reqs, r, "logout") EXCEPT ![r].cookie = refreshToken,
                                                   ![r].accessToken = accessToken]
           err == protect(accessToken, now, storeOk)
           raised == accessToken /= NoToken /\ jwtVerify(accessToken, now) = "ok" /\ ~storeOk
       IN
       reqs' = IF err /= NoError THEN nextErr(IF raised THEN Fault(rs, r) ELSE rs, r, err)
               ELSE IF refreshToken = NoToken
                    THEN Respond([rs EXCEPT ![r].admin = accessToken.id], r, LoggedOut)
               ELSE [rs EXCEPT ![r].pc = "revoke", ![r].admin = accessToken.id]
    /\ UNCHANGED <<now, env, admins, ledger, accessIssued>>

logout(r, storeOk) ==
    /\ reqs[r].kind = "logout" /\ reqs[r].pc = "revoke"
    /\ IF ~storeOk
       THEN /\ reqs' = nextErr(Fault(reqs, r), r, StoreError)
            /\ UNCHANGED ledger
       ELSE /\ ledger' = revokeToken(ledger, reqs[r].cookie)
            /\ reqs' = Respond(reqs, r, LoggedOut)
    /\ UNCHANGED <<now, env, admins, accessIssued>>

\* ---------------------------------------------------------------- guarded routes
\* the routes of the router behind protect and authorize
Routes == {"getAllForms", "getOneForm", "deleteForm", "makeABlog", "updateBlog", "deleteBlog"}

\* the routes with upload.array('photos', 6) between protect and authorize
UploadRoutes == {"makeABlog", "updateBlog"}

\* the roles each route passes to authorize
allowedRoles(route) == {"admin"}

MsgRole(role) == "Role " \o role \o " is not authorized to access this route"

\* what the fileFilter of the upload passes to its callback for a file that is
\* not an image
UploadError ==
    [name |-> "Error", code |-> 0, statusCode |-> 0,
     message |-> "Only JPG, JPEG, PNG, and WebP images are allowed",
     isOperational |-> FALSE]

\* authorize with the test of the role inverted
authorize_inverted(roles, admin) ==
    IF ~admin.exists THEN AppError(MsgNotAuthorized, 401)
    ELSE IF admin.role \in roles THEN AppError(MsgRole(admin.role), 403)
    ELSE NoError

\* authorize(...roles) on req.admin (NoAdmin when protect did not set it): the
\* error it passes to next, NoError when the request proceeds
authorize(roles, admin) ==
    IF ~admin.exists THEN AppError(MsgNotAuthorized, 401)
    ELSE IF admin.role \notin roles THEN AppError(MsgRole(admin.role), 403)
    ELSE NoError

\* the bearer strings a client can present to a guarded route
GuardBearers == Bearers \cup {ForgedToken}

\* protect, upload (on the routes that have it) and authorize of a guarded
\* route; a request that passes them goes on to its operation handler
GuardedRoute(r, route, token, storeOk, uploadOk) ==
    /\ Free(r)
    /\ uploadOk \/ route \in UploadRoutes
    /\ LET rs == [Arrive(reqs, r, route) EXCEPT ![r].accessToken = token]
           err == protect(token, now, storeOk)
           raised == token /= NoToken /\ jwtVerify(token, now) = "ok" /\ ~storeOk
           admin == admins[token.id]
           resolved == [rs EXCEPT ![r].admin = token.id, ![r].role = admin.role]
           denied == authorize(allowedRoles(route), admin)
       IN
       reqs' = IF err /= NoError THEN nextErr(IF raised THEN Fault(rs, r) ELSE rs, r, err)
               ELSE IF ~uploadOk THEN nextErr(resolved, r, UploadError)
               ELSE IF denied /= NoError THEN nextErr(resolved, r, denied)
               ELSE [resolved EXCEPT ![r].pc = "handler"]
    /\ UNCHANGED <<now, env, admins, ledger, accessIssued>>

\* ---------------------------------------------------------------- environment
\* app.use('*'): a request to a path that no router matches
NotFound(r) ==
    /\ Free(r)
    /\ reqs' = nextErr(Arrive(reqs, r, "notFound"), r, RouteNotFound)
    /\ UNCHANGED <<now, env, admins, ledger, accessIssued>>

Tick ==
    /\ now < MaxTime
    /\ now' = now + 1
    /\ UNCHANGED <<env, admins, ledger, reqs, accessIssued>>

\* setInterval(cleanupExpired): errors are caught and logged
Sweep(storeOk) ==
    /\ ledger' = IF storeOk THEN cleanupExpired(ledger, now) ELSE ledger
    /\ UNCHANGED <<now, env, admins, reqs, accessIssued>>

\* the isActive field of an account is switched off in the store (no handler
\* of the repository does it)
Deactivate(u) ==
    /\ admins[u].exists /\ admins[u].isActive
    /\ admins' = [admins EXCEPT ![u].isActive = FALSE]
    /\ UNCHANGED <<now, env, ledger, reqs, accessIssued>>

Next ==
    \/ \E r \in ReqIds, email \in Users, role \in Roles, ok \in BOOLEAN :
          RegisterFindOne(r, email, role, ok)
    \/ \E r \in ReqIds, ok \in BOOLEAN : RegisterCreate(r, ok)
    \/ \E r \in ReqIds, ok \in BOOLEAN : RegisterMint(r, ok)
    \/ \E r \in ReqIds, email \in Users, pw \in BOOLEAN, ok \in BOOLEAN :
          LoginFindOne(r, email, pw, ok)
    \/ \E r \in ReqIds, ok \in BOOLEAN : LoginSave(r, ok)
    \/ \E r \in ReqIds, ok \in BOOLEAN : LoginMint(r, ok)
    \/ \E r \in ReqIds, tok \in Presentable \cup {NoToken}, ok \in BOOLEAN :
          verifyRefreshToken(r, tok, ok)
    \/ \E r \in ReqIds, ok \in BOOLEAN : refreshTokenConsume(r, ok)
    \/ \E r \in ReqIds, ok \in BOOLEAN : refreshTokenRevokeAll(r, ok)
    \/ \E r \in ReqIds, ok \in BOOLEAN : refreshTokenMint(r, ok)
    \/ \E r \in ReqIds, at \in Bearers, tok \in Presentable \cup {NoToken}, ok \in BOOLEAN :
          LogoutProtect(r, at, tok, ok)
    \/ \E r \in ReqIds, ok \in BOOLEAN : logout(r, ok)
    \/ \E r \in ReqIds : NotFound(r)
    \/ Tick
    \/ \E ok \in BOOLEAN : Sweep(ok)

Spec == Init /\ [][Next]_vars

\* the program together with an operator who switches accounts off in the store
NextDeactivate ==
    \/ Next
    \/ \E u \in Users : Deactivate(u)

SpecDeactivate == Init /\ [][NextDeactivate]_vars

\* the login route, and the guarded routes, over every state an operator can have
\* left an account in (removed, switched off, either role): one account is in
\* any of these states, the others have been removed; each account was handed
\* an access token at second 0
AdminStates ==
    {NoAdmin} \cup [exists : {TRUE}, isActive : BOOLEAN, role : Roles, lastLogin : {-1}]

InitAccounts ==
    /\ now = 0
    /\ env \in Envs
    /\ reqs = [r \in ReqIds |-> IdleReq]
    /\ \E u \in Users, st \in AdminStates :
          admins = [v \in Users |-> IF v = u THEN st ELSE NoAdmin]
    /\ ledger = {}
    /\ accessIssued = {generateAccessToken(u, 0) : u \in Users}

NextLogin ==
    \/ \E r \in ReqIds, email \in Users, pw \in BOOLEAN, ok \in BOOLEAN :
          LoginFindOne(r, email, pw, ok)
    \/ \E r \in ReqIds, ok \in BOOLEAN : LoginSave(r, ok)
    \/ \E r \in ReqIds, ok \in BOOLEAN : LoginMint(r, ok)
    \/ Tick

SpecLogin == InitAccounts /\ [][NextLogin]_vars

NextGuard ==
    \/ \E r \in ReqIds, route \in Routes, at \in GuardBearers, ok \in BOOLEAN, up \in BOOLEAN :
          GuardedRoute(r, route, at, ok, up)
    \/ Tick

SpecGuard == InitAccounts /\ [][NextGuard]_vars

TypeOK ==
    /\ now \in Times
    /\ env \in Envs
    /\ \A row \in ledger : row.token \in AllTokens /\ row.user \in Users
    /\ \A r \in ReqIds : reqs[r].pc \in {"idle", "done", "create", "mint", "save", "consume", "revokeAll", "revoke", "handler"}

\* ---------------------------------------------------------------- vocabulary
Done(r) == reqs[r].pc = "done"

IsSuccess(res) == res.status \in {200, 201}

\* the spec's error kinds, as the responses the handlers send
IsReuseDetected(res) == res.status = 401 /\ res.message = MsgReuse

IsInvalidRefreshToken(res) ==
    res.status = 401 /\ res.message \in {MsgInvalidOrExpired, MsgInvalidRefresh}

\* request r passed verifyRefreshToken with the token it presented
Validated(r) ==
    reqs[r].kind = "refresh" /\ reqs[r].cookie /= NoToken /\ reqs[r].tokenDoc = reqs[r].cookie

\* two refresh requests that validated the same token value while both in flight
RacedOn(r1, r2) ==
    /\ Concurrent(r1, r2)
    /\ Validated(r1) /\ Validated(r2)
    /\ reqs[r1].cookie = reqs[r2].cookie
    /\ Done(r1) /\ Done(r2)

\* this step is the first step of a request of the given kind in slot r
Arrives(r, kind) == reqs[r].pc = "idle" /\ reqs'[r].kind = kind

\* this step is the step of slot r from the given position
Steps(r, kind, pc) == reqs[r].kind = kind /\ reqs[r].pc = pc /\ reqs'[r].pc /= pc

\* ---------------------------------------------------------------- C1
\* C1: of two concurrent refresh requests that presented the same valid
\* refresh token and met no store failure, exactly one answers 200 with a new
\* token pair and the other answers 401 ReuseDetected and sets no cookie.
C1_ExactlyOneSucceeds ==
    \A r1, r2 \in ReqIds :
        (RacedOn(r1, r2) /\ ~reqs[r1].fault /\ ~reqs[r2].fault) =>
            \/ /\ reqs[r1].res.status = 200 /\ reqs[r1].res.cookie /= NoToken
               /\ IsReuseDetected(reqs[r2].res) /\ reqs[r2].res.cookie = NoToken
            \/ /\ reqs[r2].res.status = 200 /\ reqs[r2].res.cookie /= NoToken
               /\ IsReuseDetected(reqs[r1].res) /\ reqs[r1].res.cookie = NoToken

\* ---------------------------------------------------------------- C2
\* C2: once two concurrent refresh requests on the same token have both
\* completed without any store call raising, the account has no ACTIVE
\* (unrevoked, unexpired) refresh token left.
C2_NoActiveAfterRace ==
    \A r1, r2 \in ReqIds :
        (RacedOn(r1, r2) /\ ~reqs[r1].fault /\ ~reqs[r2].fault) =>
            Active(ledger, reqs[r1].admin, now) = {}

\* ---------------------------------------------------------------- C3
\* C3: a refresh that presents a token whose row is already revoked, with no
\* other request in flight and no store call raising, answers 401
\* ReuseDetected and leaves the account without unrevoked rows.
C3_RevokedIsReuse ==
    [][\A r \in ReqIds :
        (/\ Arrives(r, "refresh")
         /\ \A q \in ReqIds : reqs[q].pc \in {"idle", "done"}
         /\ hasRow(ledger, reqs'[r].cookie)
         /\ rowOf(ledger, reqs'[r].cookie).isRevoked
         /\ ~reqs'[r].fault)
        => (/\ reqs'[r].pc /= "done" \/ IsReuseDetected(reqs'[r].res)
            /\ reqs'[r].pc = "done" =>
                 \A row \in ledger' :
                    row.user = rowOf(ledger, reqs'[r].cookie).user => row.isRevoked)]_vars

\* ---------------------------------------------------------------- C4
\* C4: when a refresh answers 200, the presented token's row (if the sweep
\* has not deleted it) is revoked, the step created exactly one row, that row
\* belongs to the same account and is unrevoked, and the cookie carries its
\* token value.
C4_RotationOnSuccess ==
    [][\A r \in ReqIds :
        (Steps(r, "refresh", "mint") /\ reqs'[r].res.status = 200)
        => (/\ \A row \in ledger' : row.token = reqs[r].cookie => row.isRevoked
            /\ \E new \in ledger' :
                 /\ ledger' \ ledger = {new}
                 /\ new.user = reqs[r].admin
                 /\ ~new.isRevoked
                 /\ new.token = reqs'[r].res.cookie)]_vars

\* ---------------------------------------------------------------- C5
\* C5: a refresh that presents a token with no ledger row, or with an
\* unrevoked row past its expiry, ends at validation with 401
\* InvalidRefreshToken, and the ledger is unchanged.
C5_Case(r) ==
    /\ Arrives(r, "refresh")
    /\ reqs'[r].cookie /= NoToken
    /\ \/ ~hasRow(ledger, reqs'[r].cookie)
       \/ /\ ~rowOf(ledger, reqs'[r].cookie).isRevoked
          /\ isExpired(rowOf(ledger, reqs'[r].cookie), now)

C5_InvalidLeavesLedger ==
    [][\A r \in ReqIds :
        C5_Case(r) => (/\ reqs'[r].pc = "done"
                       /\ IsInvalidRefreshToken(reqs'[r].res)
                       /\ reqs'[r].res.cookie = NoToken
                       /\ ledger' = ledger)]_vars

\* an expired, never revoked token was presented and rejected
C5_Witness ==
    \E r \in ReqIds :
        /\ reqs[r].kind = "refresh" /\ Done(r) /\ ~reqs[r].fault
        /\ hasRow(ledger, reqs[r].cookie)
        /\ ~rowOf(ledger, reqs[r].cookie).isRevoked
        /\ isExpired(rowOf(ledger, reqs[r].cookie), now)
        /\ reqs[r].res = ErrRes(401, MsgInvalidOrExpired)

\* ---------------------------------------------------------------- C6
\* C6: a step that sets the refresh cookie leaves a ledger row with that token
\* value owned by the request's account; a mint step that inserted no row
\* sets no cookie and does not answer 200 or 201.
C6_HandedOutIsRecorded ==
    [][\A r \in ReqIds :
        /\ (reqs'[r].res.cookie /= reqs[r].res.cookie)
            => \E row \in ledger' :
                  /\ row.token = reqs'[r].res.cookie
                  /\ row.user = reqs'[r].admin
                  /\ row \notin ledger
        /\ (reqs[r].pc = "mint" /\ reqs'[r].pc = "done" /\ ledger' \ ledger = {})
            => (reqs'[r].res.cookie = NoToken /\ ~IsSuccess(reqs'[r].res))]_vars

\* a mint whose insert failed: the request got as far as minting and answered
\* with an error and without a cookie
C6_Witness ==
    \E r \in ReqIds :
        /\ reqs[r].kind \in {"register", "login"} /\ Done(r)
        /\ reqs[r].accessToken /= NoToken
        /\ reqs[r].res.cookie = NoToken /\ ~IsSuccess(reqs[r].res)
        /\ \E q \in ReqIds : IsSuccess(reqs[q].res) /\ hasRow(ledger, reqs[q].res.cookie)

\* ---------------------------------------------------------------- C7
\* C7: a refresh that follows a successful login, presents the login's cookie,
\* passes validation and meets no store failure answers 200 with an access
\* token and a refresh token that differ from the login's.
C7_LoginThenRefresh ==
    \A l, r \in ReqIds :
        (/\ reqs[l].kind = "login" /\ Done(l) /\ reqs[l].res.status = 200
         /\ l < r /\ ~Concurrent(l, r)
         /\ Validated(r) /\ Done(r) /\ ~reqs[r].fault
         /\ reqs[r].cookie = reqs[l].res.cookie)
        => (/\ reqs[r].res.status = 200
            /\ reqs[r].res.cookie /= reqs[l].res.cookie
            /\ reqs[r].res.accessToken /= reqs[l].res.accessToken)

\* ---------------------------------------------------------------- C8
\* C8: a logout step changes nothing of the ledger but the revoked flag of
\* the row whose token value is the presented cookie.
C8_LogoutFrame ==
    [][\A r \in ReqIds :
        /\ Arrives(r, "logout") => ledger' = ledger
        /\ Steps(r, "logout", "revoke")
            => /\ \A row \in ledger : row.token /= reqs[r].cookie => row \in ledger'
               /\ \A row \in ledger' :
                    \/ row \in ledger
                    \/ /\ row.token = reqs[r].cookie
                       /\ [row EXCEPT !.isRevoked = FALSE] \in ledger]_vars

\* a logout revoked its row while a sibling row of the same account and a row
\* of nobody else stayed as they were
C8_Witness ==
    \E r \in ReqIds :
        /\ reqs[r].kind = "logout" /\ Done(r) /\ reqs[r].res.status = 200
        /\ hasRow(ledger, reqs[r].cookie)
        /\ rowOf(ledger, reqs[r].cookie).isRevoked
        /\ \E sib \in ledger :
              /\ sib.user = rowOf(ledger, reqs[r].cookie).user
              /\ sib.token /= reqs[r].cookie
              /\ ~sib.isRevoked

\* ---------------------------------------------------------------- C9
\* C9: a logout whose presented token is already revoked or has no row, and
\* whose store call does not raise, answers 200 and leaves the ledger as it
\* was; revoking a token twice gives the ledger that revoking it once gives.
C9_LogoutIdempotent ==
    [][/\ \A r \in ReqIds :
            (/\ Steps(r, "logout", "revoke")
             /\ ~reqs'[r].fault
             /\ \/ ~hasRow(ledger, reqs[r].cookie)
                \/ rowOf(ledger, reqs[r].cookie).isRevoked)
            => (reqs'[r].res = LoggedOut /\ ledger' = ledger)
       /\ \A tok \in Presentable :
            revokeToken(revokeToken(ledger, tok), tok) = revokeToken(ledger, tok)]_vars

\* two logouts with the same cookie both answered 200
C9_Witness ==
    \E r1, r2 \in ReqIds :
        /\ r1 < r2 /\ ~Concurrent(r1, r2)
        /\ reqs[r1].kind = "logout" /\ reqs[r2].kind = "logout"
        /\ reqs[r1].cookie = reqs[r2].cookie
        /\ hasRow(ledger, reqs[r1].cookie)
        /\ reqs[r1].res = LoggedOut /\ reqs[r2].res = LoggedOut

\* ---------------------------------------------------------------- C10
\* C10: every logout request that passed the access-token check and has
\* answered cleared the refresh cookie.
C10_LogoutAlwaysClears ==
    \A r \in ReqIds :
        (reqs[r].kind = "logout" /\ Done(r) /\ reqs[r].admin /= 0) => reqs[r].res.cleared

\* ---------------------------------------------------------------- C11
\* C11: a login whose email matches no account and a login with the email of
\* an account and a wrong password, the account active or not, get one and
\* the same response, 401 'Invalid credentials'; neither changes the ledger,
\* the last-login of an account or any other account field.
C11_Case(r) ==
    /\ Arrives(r, "login")
    /\ ~reqs'[r].fault
    /\ ~admins[reqs'[r].email].exists \/ ~reqs'[r].password

C11_SameResponse ==
    [][\A r \in ReqIds :
        C11_Case(r) => (/\ reqs'[r].pc = "done"
                        /\ reqs'[r].res = ErrRes(401, MsgInvalidCredentials)
                        /\ ledger' = ledger
                        /\ admins' = admins)]_vars

\* an unknown email and a wrong password for a switched-off account were both
\* answered, with equal responses
C11_Witness ==
    \E r1, r2 \in ReqIds :
        /\ reqs[r1].kind = "login" /\ Done(r1) /\ ~reqs[r1].fault
        /\ reqs[r2].kind = "login" /\ Done(r2) /\ ~reqs[r2].fault
        /\ ~admins[reqs[r1].email].exists
        /\ admins[reqs[r2].email].exists /\ ~admins[reqs[r2].email].isActive
        /\ ~reqs[r2].password
        /\ reqs[r1].res = reqs[r2].res
        /\ reqs[r1].res.status = 401

\* ---------------------------------------------------------------- C12
\* C12: a login with the correct password for an account whose active flag
\* is false is answered 401 'Account is deactivated'; it mints no access
\* token, inserts no refresh-token row, sets no cookie and leaves the
\* last-login of the account as it was.
C12_Case(r) ==
    /\ Arrives(r, "login")
    /\ ~reqs'[r].fault
    /\ admins[reqs'[r].email].exists
    /\ ~admins[reqs'[r].email].isActive
    /\ reqs'[r].password

C12_DeactivatedLogin ==
    [][\A r \in ReqIds :
        C12_Case(r) => (/\ reqs'[r].pc = "done"
                        /\ reqs'[r].res = ErrRes(401, MsgDeactivated)
                        /\ reqs'[r].accessToken = NoToken
                        /\ accessIssued' = accessIssued
                        /\ ledger' = ledger
                        /\ admins' = admins)]_vars

\* a switched-off account logged in with its password and was refused
C12_Witness ==
    \E r \in ReqIds :
        /\ reqs[r].kind = "login" /\ Done(r) /\ ~reqs[r].fault
        /\ reqs[r].password
        /\ admins[reqs[r].email].exists /\ ~admins[reqs[r].email].isActive
        /\ reqs[r].res = ErrRes(401, MsgDeactivated)
        /\ admins[reqs[r].email].lastLogin = -1
        /\ ledger = {}

\* ---------------------------------------------------------------- C13
\* C13: protect gives every presented access token, when the account lookup
\* does not raise, the one outcome of its case: a correctly signed token past
\* its exp gets 401 'Token expired'; a token that fails verification
\* otherwise gets 401 'Token is not valid'; a verified token of an account
\* that is gone gets 401 'Token is not valid'; a verified token of a
\* switched-off account gets 401 'Account is deactivated'; any other token
\* lets the request proceed with req.admin set to the account of the token.
\* the request of slot r, arriving in this step, has gone through protect
GuardArrives(r) ==
    /\ reqs[r].pc = "idle"
    /\ reqs'[r].kind \in Routes
    /\ reqs'[r].accessToken /= NoToken
    /\ ~reqs'[r].fault

C13_Outcome(r) ==
    LET tok == reqs'[r].accessToken
        refused(message) == reqs'[r].pc = "done" /\ reqs'[r].res = ErrRes(401, message)
                            /\ reqs'[r].admin = 0
    IN  IF tok \in AllTokens /\ now >= tok.iat + AccessTTL THEN refused(MsgTokenExpired)
        ELSE IF tok \notin AllTokens THEN refused(MsgTokenNotValid)
        ELSE IF ~admins[tok.id].exists THEN refused(MsgTokenNotValid)
        ELSE IF ~admins[tok.id].isActive THEN refused(MsgDeactivated)
        ELSE /\ reqs'[r].admin = tok.id
             /\ reqs'[r].role = admins[tok.id].role
             /\ reqs'[r].res.status /= 401

C13_GuardClassifies ==
    [][\A r \in ReqIds : GuardArrives(r) => C13_Outcome(r)]_vars

\* the token of a switched-off account was refused as deactivated and, after
\* its exp, as expired
C13_Witness ==
    \E r1, r2 \in ReqIds :
        /\ reqs[r1].kind \in Routes /\ reqs[r2].kind \in Routes
        /\ reqs[r1].accessToken = reqs[r2].accessToken
        /\ reqs[r1].accessToken \in AllTokens
        /\ ~reqs[r1].fault /\ ~reqs[r2].fault
        /\ reqs[r1].res = ErrRes(401, MsgDeactivated)
        /\ reqs[r2].res = ErrRes(401, MsgTokenExpired)

\* ---------------------------------------------------------------- C14
\* C14: an access token that register, login or refresh handed out, presented
\* to protect (on the logout route) while its account exists and is active
\* and the account lookup does not raise, is accepted at every second before
\* iat + TTL and is refused with 401 'Token expired', not with 'Token is not
\* valid', at every second from iat + TTL on.
C14_RoundTrip ==
    [][\A r \in ReqIds :
        LET tok == reqs'[r].accessToken IN
        (/\ Arrives(r, "logout")
         /\ tok \in accessIssued
         /\ ~reqs'[r].fault
         /\ admins[tok.id].exists /\ admins[tok.id].isActive)
        => IF now < tok.iat + AccessTTL
           THEN /\ reqs'[r].admin = tok.id
                /\ reqs'[r].pc = "revoke" \/ reqs'[r].res = LoggedOut
           ELSE /\ reqs'[r].pc = "done"
                /\ reqs'[r].res = ErrRes(401, MsgTokenExpired)]_vars

\* one handed-out token was accepted by one request and refused as expired
\* by a later one
C14_Witness ==
    \E r1, r2 \in ReqIds :
        /\ reqs[r1].kind = "logout" /\ reqs[r2].kind = "logout"
        /\ reqs[r1].accessToken = reqs[r2].accessToken
        /\ reqs[r1].accessToken \in accessIssued
        /\ reqs[r1].res = LoggedOut
        /\ reqs[r2].res = ErrRes(401, MsgTokenExpired)

\* ---------------------------------------------------------------- C15
\* C15: authorize(allowedRoles), applied to the account protect resolved,
\* answers 403 exactly when the role of the account is not among
\* allowedRoles and lets the request go on to its handler otherwise; the step
\* leaves the accounts and the ledger as they were.
\* the request of slot r, arriving in this step, has reached authorize
AuthorizeApplied(r) ==
    /\ GuardArrives(r)
    /\ reqs'[r].admin /= 0
    /\ reqs'[r].res /= globalErrorHandler(UploadError, env)

C15_AuthorizeIffRole ==
    [][/\ \A r \in ReqIds :
            AuthorizeApplied(r) =>
                LET role == admins[reqs'[r].admin].role IN
                /\ (role \notin allowedRoles(reqs'[r].kind))
                     <=> (reqs'[r].pc = "done" /\ reqs'[r].res = ErrRes(403, MsgRole(role)))
                /\ (role \in allowedRoles(reqs'[r].kind)) <=> (reqs'[r].pc = "handler")
                /\ admins' = admins /\ ledger' = ledger
       /\ \A u \in Users, roles \in SUBSET Roles :
            admins[u].exists =>
                /\ (admins[u].role \in roles) <=> (authorize(roles, admins[u]) = NoError)
                /\ (admins[u].role \notin roles)
                     <=> (authorize(roles, admins[u]).statusCode = 403)]_vars

\* an active account with a valid token reached authorize with a role that
\* the route does not allow and was answered 403
C15_Witness ==
    \E r \in ReqIds :
        /\ reqs[r].kind \in Routes
        /\ reqs[r].admin /= 0
        /\ admins[reqs[r].admin].isActive
        /\ admins[reqs[r].admin].role \notin allowedRoles(reqs[r].kind)
        /\ reqs[r].pc = "done"
        /\ reqs[r].res = ErrRes(403, MsgRole(admins[reqs[r].admin].role))

\* ---------------------------------------------------------------- C16
\* C16: on every guarded route that lets role admin through, a request with
\* a valid access token of an active super-admin account that has reached
\* authorize is let through as well (it is not answered 403).
C16_SuperAdminAllowed ==
    \A r \in ReqIds :
        (/\ reqs[r].kind \in Routes
         /\ "admin" \in allowedRoles(reqs[r].kind)
         /\ reqs[r].admin /= 0
         /\ reqs[r].role = "super-admin"
         /\ admins[reqs[r].admin].isActive
         /\ reqs[r].res /= globalErrorHandler(UploadError, env))
        => (reqs[r].pc = "handler" /\ reqs[r].res.status /= 403)

\* ---------------------------------------------------------------- C17
\* C17: an account, once created, is never replaced by a register, and a
\* register that finds its email taken, at its lookup or (after a concurrent
\* register for the same email) at its insert, is answered 400 and creates no
\* account, no refresh-token row and no cookie.
C17_Refused(r) ==
    /\ reqs'[r].pc = "done"
    /\ reqs'[r].res.status = 400
    /\ reqs'[r].res.cookie = NoToken
    /\ admins' = admins
    /\ ledger' = ledger

C17_DuplicateRegister ==
    [][\A r \in ReqIds :
        /\ (Arrives(r, "register") /\ ~reqs'[r].fault /\ admins[reqs'[r].email].exists)
            => C17_Refused(r)
        /\ (Steps(r, "register", "create") /\ ~reqs'[r].fault
             /\ admins[reqs[r].email].exists)
            => C17_Refused(r)
        /\ \A email \in Users : admins[email].exists =>
                (admins'[email] = admins[email]
                 \/ admins'[email] = [admins[email] EXCEPT !.lastLogin = now])]_vars

\* ---------------------------------------------------------------- C18
\* C18: the account object in the body of a 201 register response and of a
\* 200 login response carries no password path.
C18_NoPasswordInBody ==
    \A r \in ReqIds :
        (reqs[r].kind \in {"register", "login"} /\ Done(r) /\ IsSuccess(reqs[r].res))
        => "password" \notin reqs[r].res.admin

\* ---------------------------------------------------------------- C19
\* C19: in every step each ledger row either stays, under the same token
\* value, with the same owner and the same expiry and with its revoked flag
\* unchanged or moved from false to true, or is a row past its expiry that
\* the step deletes; no token value ever has two rows.
C19_RowsImmutable ==
    [][/\ \A old \in ledger :
            \/ \E new \in ledger' :
                  /\ new.token = old.token
                  /\ new.user = old.user
                  /\ new.expiresAt = old.expiresAt
                  /\ old.isRevoked => new.isRevoked
            \/ old.expiresAt < now /\ ~hasRow(ledger', old.token)
       /\ \A a, b \in ledger' : a.token = b.token => a = b]_vars

\* a mass revocation has run on an account that holds a row revoked before it
\* and a row minted after it
C19_Witness ==
    \E r \in ReqIds :
        /\ reqs[r].kind = "refresh" /\ Done(r) /\ ~reqs[r].fault
        /\ IsReuseDetected(reqs[r].res)
        /\ hasRow(ledger, reqs[r].cookie)
        /\ rowOf(ledger, reqs[r].cookie).isRevoked
        /\ \E row \in ledger : row.user = reqs[r].admin /\ ~row.isRevoked

\* ---------------------------------------------------------------- C20
\* C20 as claimed: a refresh without a refresh-token cookie is answered 401
\* InvalidRefreshToken and leaves the ledger as it was.
C20_MissingIs401 ==
    [][\A r \in ReqIds :
        (Arrives(r, "refresh") /\ reqs'[r].cookie = NoToken)
        => (/\ reqs'[r].pc = "done"
            /\ IsInvalidRefreshToken(reqs'[r].res)
            /\ ledger' = ledger)]_vars

\* C20 as amended: a refresh without a refresh-token cookie is answered 400
\* 'Refresh token is required', before any store call, sets no cookie and
\* leaves the ledger as it was.
C20_MissingIs400 ==
    [][\A r \in ReqIds :
        (Arrives(r, "refresh") /\ reqs'[r].cookie = NoToken)
        => (/\ reqs'[r].pc = "done"
            /\ reqs'[r].res = ErrRes(400, MsgRefreshRequired)
            /\ ~reqs'[r].fault
            /\ ledger' = ledger)]_vars

\* a refresh without cookie was answered while the ledger holds a valid row
C20_Witness ==
    \E r \in ReqIds :
        /\ reqs[r].kind = "refresh" /\ Done(r)
        /\ reqs[r].cookie = NoToken
        /\ reqs[r].res.status = 400
        /\ \E row \in ledger : ~row.isRevoked /\ row.expiresAt > now

\* ---------------------------------------------------------------- C21
\* C21: whatever JWT_REFRESH_EXPIRE is configured, the Max-Age of every
\* refresh cookie that register, login or refresh sets equals the configured
\* refresh lifetime, and so equals the lifetime (expiry minus creation time)
\* of the ledger row created for the token of the cookie.
C21_CookieMaxAge ==
    \A r \in ReqIds :
        LET cookie == reqs[r].res.cookie IN
        (cookie /= NoToken /\ hasRow(ledger, cookie))
        => (/\ reqs[r].res.maxAge = expiresInSeconds(JWT_REFRESH_EXPIRE)
            /\ reqs[r].res.maxAge = rowOf(ledger, cookie).expiresAt - cookie.iat)

\* ---------------------------------------------------------------- C22
\* C22: a refresh whose consume update raises a store error ends there with
\* an error response: it does not go on to mint, answers neither 200 nor 201
\* and sets no cookie.
C22_ConsumeErrorSurfaced ==
    [][\A r \in ReqIds :
        (Steps(r, "refresh", "consume") /\ reqs'[r].fault)
        => (/\ reqs'[r].pc = "done"
            /\ ~IsSuccess(reqs'[r].res)
            /\ reqs'[r].res.cookie = NoToken
            /\ ledger' = ledger)]_vars

\* ---------------------------------------------------------------- C23
\* C23: the revoke-all step of a refresh whose consume matched no unrevoked
\* row always answers 401 ReuseDetected, with no cookie and no access token,
\* and inserts no row; when its store call raises, the ledger stays as it was
\* and the answer is still that 401.
C23_ReuseKeeps401 ==
    [][\A r \in ReqIds :
        Steps(r, "refresh", "revokeAll")
        => (/\ reqs'[r].pc = "done"
            /\ reqs'[r].res = ErrRes(401, MsgReuse)
            /\ {row.token : row \in ledger'} = {row.token : row \in ledger}
            /\ accessIssued' = accessIssued
            /\ reqs'[r].fault => ledger' = ledger)]_vars

\* a refresh lost the consume, its revoke-all raised, and it was answered 401
\* ReuseDetected while the account kept an unrevoked row
C23_Witness ==
    \E r \in ReqIds :
        /\ reqs[r].kind = "refresh" /\ Done(r) /\ reqs[r].fault
        /\ reqs[r].tokenDoc /= NoToken
        /\ IsReuseDetected(reqs[r].res)
        /\ reqs[r].res.cookie = NoToken
        /\ \E row \in ledger : row.user = reqs[r].admin /\ ~row.isRevoked

\* ---------------------------------------------------------------- C24
\* C24: a sweep that deletes anything deletes exactly the rows whose expiry
\* is before now, revoked or not; no row it deletes is valid (unrevoked with
\* now before its expiry); a row whose expiry equals now stays in the ledger
\* and is not valid for findValidToken.
\* this step is a run of the sweep that deleted rows
Sweeps == reqs' = reqs /\ now' = now /\ ledger' /= ledger

C24_SweepExact ==
    [][/\ Sweeps =>
            /\ ledger' \subseteq ledger
            /\ \A row \in ledger : (row \notin ledger') <=> (row.expiresAt < now)
            /\ \A row \in ledger \ ledger' : row \notin Active(ledger, row.user, now)
       /\ \A row \in ledger :
            /\ (row \in cleanupExpired(ledger, now)) <=> (row.expiresAt >= now)
            /\ row.expiresAt = now =>
                  /\ row \in cleanupExpired(ledger, now)
                  /\ findValidToken(ledger, row.token, now) = {}]_vars

\* the sweep has deleted the row of a cookie that was handed out, and kept a
\* row whose expiry is the current second
C24_Witness ==
    \E r \in ReqIds :
        /\ reqs[r].res.cookie /= NoToken
        /\ ~hasRow(ledger, reqs[r].res.cookie)
        /\ \E row \in ledger : row.expiresAt = now

\* ---------------------------------------------------------------- C25
\* C25: a request to a path that matches no route is answered 404, in
\* development and in any other environment.
C25_NotFoundIs404 ==
    \A r \in ReqIds :
        (reqs[r].kind = "notFound" /\ Done(r)) => reqs[r].res.status = 404

\* ---------------------------------------------------------------- C26
\* C26: a refresh request goes on to revoke all tokens of the account only
\* when, at its consume step, the row of the presented token is in the ledger
\* and was revoked by some other operation; a row that expired or was deleted
\* by the sweep since validation never leads to the mass revocation.
C26_MassRevocationOnlyOnReuse ==
    [][\A r \in ReqIds :
        (Steps(r, "refresh", "consume") /\ reqs'[r].pc = "revokeAll")
        => (/\ hasRow(ledger, reqs[r].tokenDoc)
            /\ rowOf(ledger, reqs[r].tokenDoc).isRevoked)]_vars

\* ---------------------------------------------------------------- C27
\* C27: no tokens for a deactivated account: a login that arrives for an
\* account whose isActive is false ends without a cookie or an access token,
\* and the mint step of a refresh for such an account (after a consume that
\* did not raise) adds no ledger row and returns no access token.
Deactivated(u) == admins[u].exists /\ ~admins[u].isActive

C27_NoTokensForDeactivated ==
    [][\A r \in ReqIds :
        /\ (Arrives(r, "login") /\ Deactivated(reqs'[r].email))
           => (/\ reqs'[r].pc = "done"
               /\ reqs'[r].res.cookie = NoToken
               /\ reqs'[r].res.accessToken = NoToken)
        /\ (Steps(r, "refresh", "mint") /\ ~reqs[r].fault /\ Deactivated(reqs[r].admin))
           => (/\ ledger' = ledger
               /\ reqs'[r].res.cookie = NoToken
               /\ reqs'[r].res.accessToken = NoToken)]_vars

\* ---------------------------------------------------------------- C28
\* C28: the revoke step of a logout changes the revoked flag only of rows
\* owned by the account that the access token of the request authenticated:
\* a logout by one account with the refresh cookie of another leaves the
\* other account's row unrevoked.
C28_LogoutOwnRowsOnly ==
    [][\A r \in ReqIds :
        Steps(r, "logout", "revoke")
        => \A row \in ledger :
              row.user /= reqs[r].admin
              => \E kept \in ledger' :
                    kept.token = row.token /\ kept.isRevoked = row.isRevoked]_vars

\* ---------------------------------------------------------------- C29
\* C29: the revoke-all step of a refresh on a token of an account leaves every
\* row of that account revoked, and no step of a request by or on an account
\* (the account of its access token, of its refresh token or of its login)
\* changes a row owned by another account.
C29_OtherAccountsUntouched ==
    [][\A r \in ReqIds :
        /\ (Steps(r, "refresh", "revokeAll") /\ ~reqs'[r].fault)
           => \A row \in ledger' : row.user = reqs[r].admin => row.isRevoked
        /\ (reqs'[r] /= reqs[r] /\ reqs'[r].admin \in Users)
           => \A row \in ledger : row.user /= reqs'[r].admin => row \in ledger']_vars

====
